---- MODULE Spec2Model ----
(***************************************************************************)
(* A model of bCNC/lib/svgcode.py: SVGcode.path2gcode (the translation of  *)
(* the segments of an SVG path into G-code lines), its number formatting   *)
(* helper rv, and SVGcode.get_gcode (the loop over the elements of a       *)
(* parsed document).                                                       *)
(*                                                                         *)
(* Numbers.  A Python float is modelled by a sign and a magnitude counted  *)
(* in units of 10^-Prec, so that negative zero (the value of -0.0) is a    *)
(* value of its own, as it is in the program.  Every number the model      *)
(* feeds to round() is either a multiple of 1/8, which a float holds       *)
(* exactly and which round() therefore rounds half-to-even, or has no      *)
(* digit pattern that ties; its magnitude lies in [0.125, 10^16) or is 0,  *)
(* so the float's text is positional, never in exponent notation.          *)
(*                                                                         *)
(* Text.  A Python str is modelled by the sequence of its characters, each *)
(* a one-character string.                                                 *)
(***************************************************************************)
EXTENDS Integers, Sequences, FiniteSets

VARIABLES
    pc,                \* where the running call stands
    path,              \* path2gcode: the segments the loop has taken, in order
    samples_per_unit,  \* path2gcode: parameter
    d,                 \* path2gcode: parameter, the decimal digits
    gcode,             \* path2gcode: the list of lines
    subdiv,            \* path2gcode: local of the loop body
    subdiv_points,     \* path2gcode: local of the sampling branch
    points,            \* path2gcode: local of the sampling branch
    result,            \* path2gcode: the returned text
    scale,             \* get_gcode: parameter
    elements,          \* get_gcode: the elements the loop has taken, in order
    doc_gcode,         \* get_gcode: its list gcode of {id, path} entries
    v,                 \* rv: its argument
    text               \* rv: the returned text

vars == <<pc, path, samples_per_unit, d, gcode, subdiv, subdiv_points, points,
          result, scale, elements, doc_gcode, v, text>>

\* Decimal digits carried by the magnitude of a modelled float.
Prec == 5

\* The most segments a path delivers, and the most elements a document.
MaxSegs == 2

MaxElems == 2

RECURSIVE Pow10(_)
Pow10(n) == IF n = 0 THEN 1 ELSE 10 * Pow10(n - 1)

\* Units of magnitude per 1.0.
Unit == Pow10(Prec)

\* The float w + f / 10^n (n <= Prec), and its negation.
Dec(w, f, n) == [neg |-> FALSE, mag |-> w * Unit + f * Pow10(Prec - n)]

Neg(x) == [neg |-> ~x.neg, mag |-> x.mag]

\* The float of a signed count of units (zero is +0.0), and back.
OfInt(i) == IF i < 0 THEN [neg |-> TRUE, mag |-> 0 - i] ELSE [neg |-> FALSE, mag |-> i]

ToInt(x) == IF x.neg THEN 0 - x.mag ELSE x.mag

----------------------------------------------------------------------------
(* rv: f"{round(v, d):{d}}".rstrip("0").rstrip(".")                         *)

\* round(x, nd) of a float: to the nearest multiple of 10^-nd, a tie to the
\* even one; the sign is kept, so -0.001 rounds to -0.0.
Round(x, nd) ==
    LET q   == Pow10(Prec - nd)
        lo  == x.mag \div q
        rem == x.mag % q
        up  == \/ 2 * rem > q
               \/ 2 * rem = q /\ lo % 2 = 1
    IN  [neg |-> x.neg, mag |-> (IF up THEN lo + 1 ELSE lo) * q]

Digit(k) == <<"0", "1", "2", "3", "4", "5", "6", "7", "8", "9">>[k + 1]

\* The decimal digits of a natural number, "0" for 0.
RECURSIVE NatStr(_)
NatStr(n) == IF n < 10 THEN <<Digit(n)>> ELSE NatStr(n \div 10) \o <<Digit(n % 10)>>

\* The n low decimal digits of m, zero-padded on the left.
RECURSIVE FixedStr(_, _)
FixedStr(m, n) == IF n = 0 THEN <<>> ELSE FixedStr(m \div 10, n - 1) \o <<Digit(m % 10)>>

\* str.rstrip(c): every trailing c removed.
RECURSIVE RStrip(_, _)
RStrip(s, c) ==
    IF s # <<>> /\ s[Len(s)] = c THEN RStrip(SubSeq(s, 1, Len(s) - 1), c) ELSE s

\* The text of a float with no format type (that of repr): the shortest
\* digits that read back, with at least one digit after the point.
FloatStr(x) ==
    LET frac == RStrip(FixedStr(x.mag % Unit, Prec), "0")
    IN  (IF x.neg THEN <<"-">> ELSE <<>>)
        \o NatStr(x.mag \div Unit) \o <<".">>
        \o (IF frac = <<>> THEN <<"0">> ELSE frac)

RECURSIVE Spaces(_)
Spaces(n) == IF n <= 0 THEN <<>> ELSE <<" ">> \o Spaces(n - 1)

\* format(x, f"{w}") of a float: the format spec is a bare number, which is
\* a minimum width; a number is right-aligned, padded with blanks on the left.
FormatWidth(s, w) == Spaces(w - Len(s)) \o s

rv(x, nd) == RStrip(RStrip(FormatWidth(FloatStr(Round(x, nd)), nd), "0"), ".")

----------------------------------------------------------------------------
(* The segments of a path.  A segment is a record                          *)
(*   kind  : its class (Move, Line, Close, Arc, CubicBezier,               *)
(*           QuadraticBezier, or Other for any further PathSegment),       *)
(*   start, end : points [x, y] of floats,                                 *)
(*   len   : what segment.length(error=1e-5) returns, a float >= 0,        *)
(*   rx    : segment.rx, and dr : abs(segment.rx - segment.ry) counted in  *)
(*           units of 10^-10 (Arc only),                                   *)
(*   sweep : the sign of segment.sweep (Arc only).                         *)

Pt(px, py) == [x |-> px, y |-> py]

Origin == Pt(Dec(0, 0, 0), Dec(0, 0, 0))

P10 == Pt(Dec(10, 0, 0), Dec(0, 0, 0))

PFrac == Pt(Dec(2, 5, 1), Neg(Dec(0, 125, 3)))

Seg(k, s, e, l, r, dd, sw) ==
    [kind |-> k, start |-> s, end |-> e, len |-> l, rx |-> r, dr |-> dd, sweep |-> sw]

Len0 == Dec(0, 0, 0)

LenQuarter == Dec(0, 25, 2)

Len3Eighths == Dec(0, 375, 3)

Len2 == Dec(2, 0, 0)

\* abs(rx - ry) < 1e-9, in units of 10^-10.
Tol == 10

\* The segments a path may deliver after a segment ending at s.
Segments(s) ==
    {Seg("Move", s, e, l, Len0, 0, 0) :
        e \in {Origin, PFrac}, l \in {Len0}}
    \cup {Seg("Move", s, P10, Len2, Len0, 0, 0)}
    \cup {Seg("Line", s, e, l, Len0, 0, 0) :
        e \in {P10, PFrac}, l \in {LenQuarter, Len2}}
    \cup {Seg("Close", s, Origin, l, Len0, 0, 0) : l \in {Len0, Len2}}
    \cup {Seg("Arc", s, P10, Len2, Dec(5, 0, 0), 0, sw) : sw \in {-1, 0, 1}}
    \cup {Seg("Arc", s, P10, Len2, Dec(5, 0, 0), 5, 1),
          Seg("Arc", s, Origin, Len0, Dec(2, 5, 1), 0, 1)}
    \cup {Seg("Arc", s, P10, Len3Eighths, Dec(5, 0, 0), Tol, 1),
          Seg("Arc", s, P10, Len0, Dec(5, 0, 0), 1250000000, -1),
          Seg("Arc", s, PFrac, Len3Eighths, Dec(5, 0, 0), 1250000000, 1)}
    \cup {Seg("CubicBezier", s, P10, Len2, Len0, 0, 0),
          Seg("CubicBezier", s, PFrac, Len0, Len0, 0, 0),
          Seg("CubicBezier", s, PFrac, LenQuarter, Len0, 0, 0)}
    \cup {Seg("QuadraticBezier", s, Origin, Len3Eighths, Len0, 0, 0),
          Seg("QuadraticBezier", s, P10, LenQuarter, Len0, 0, 0)}
    \cup {Seg("Other", s, P10, l, Len0, 0, 0) : l \in {Len0, Len3Eighths}}

\* The values of samples_per_unit and of d the calls are made with.
SamplesPerUnit == {1, 10}

Digits == {0, 2, 4}

----------------------------------------------------------------------------
(* path2gcode                                                              *)

Max(a, b) == IF a >= b THEN a ELSE b

\* subdiv = max(1, round(segment.length(error=1e-5) * samples_per_unit));
\* round() of a float to an int takes a tie to the even one.
SubdivOf(l, spu) ==
    Max(1, Round([neg |-> FALSE, mag |-> l.mag * spu], 0).mag \div Unit)

\* numpy.linspace(0, 1, n, endpoint=True): n values from 0 to 1, evenly
\* spaced, each the fraction num/den; one value gives just the start, 0.
Linspace(n) ==
    [k \in 1..n |-> IF n = 1 THEN [num |-> 0, den |-> 1]
                             ELSE [num |-> k - 1, den |-> n - 1]]

\* subdiv_points = numpy.linspace(0, 1, subdiv, endpoint=True)[1:]
SubdivPoints(n) == Tail(Linspace(n))

\* The library's curve evaluation, segment.npoint, at one position t: the
\* start at 0, the end at 1, and in between the point of the chord at t
\* taken down to the grid of 1/8 (the curve's shape between its ends is
\* the library's).
Grid == Unit \div 8

Along(a, b, t) == OfInt(ToInt(a) + Grid * ((((ToInt(b) - ToInt(a)) \div Grid) * t.num) \div t.den))

NPoint(seg, t) == Pt(Along(seg.start.x, seg.end.x, t), Along(seg.start.y, seg.end.y, t))

\* points = segment.npoint(subdiv_points): one point per position.
NPoints(seg, ts) == [k \in 1..Len(ts) |-> NPoint(seg, ts[k])]

\* -segment.end.y, -sp[1]
FlipY_Keep(y) == y

FlipY(y) == Neg(y)

\* f"G0 X{rv(segment.end.x)} Y{rv(-segment.end.y)}" and its G1 form.
XYLine(code, p, nd) ==
    code \o <<" ", "X">> \o rv(p.x, nd) \o <<" ", "Y">> \o rv(FlipY(p.y), nd)

G0 == <<"G", "0">>

G1 == <<"G", "1">>

G02 == <<"G", "0", "2">>

G03 == <<"G", "0", "3">>

\* garc = "G02" if segment.sweep > 0 else "G03"
Garc(seg) == IF seg.sweep > 0 THEN G02 ELSE G03

\* " ".join([garc, X.., Y.., R..])
ArcLine(seg, nd) ==
    Garc(seg) \o <<" ", "X">> \o rv(seg.end.x, nd)
              \o <<" ", "Y">> \o rv(FlipY(seg.end.y), nd)
              \o <<" ", "R">> \o rv(seg.rx, nd)

\* The tests of the if/elif chain, in its order.
IsMove(seg) == seg.kind = "Move"

IsLine(seg) == ~IsMove(seg) /\ seg.kind \in {"Line", "Close"}

IsCircular_AnyArc(seg) == ~IsMove(seg) /\ ~IsLine(seg) /\ seg.kind = "Arc"

IsCircular(seg) == ~IsMove(seg) /\ ~IsLine(seg) /\ seg.kind = "Arc" /\ seg.dr < Tol

IsSampled(seg) == ~IsMove(seg) /\ ~IsLine(seg) /\ ~IsCircular(seg)

\* gcode.append / gcode.extend
Extend_Front(lines, more) == more \o lines

Extend(lines, more) == lines \o more

\* "\n".join(gcode)
RECURSIVE Join(_)
Join(lines) ==
    IF lines = <<>> THEN <<>>
    ELSE IF Len(lines) = 1 THEN lines[1]
    ELSE lines[1] \o <<"\n">> \o Join(Tail(lines))

\* The lines each branch of the chain adds to gcode.
MoveLines(seg, nd) == <<XYLine(G0, seg.end, nd)>>

LineLines(seg, nd) == <<XYLine(G1, seg.end, nd)>>

ArcLines(seg, nd) == <<ArcLine(seg, nd)>>

\* [f"G1 X{rv(sp[0])} Y{rv(-sp[1])}" for sp in points]
PointLines(pts, nd) == [k \in 1..Len(pts) |-> XYLine(G1, pts[k], nd)]

\* One turn of the loop body, as a function of the segment.
SegLines(seg, spu, nd) ==
    IF IsMove(seg) THEN MoveLines(seg, nd)
    ELSE IF IsLine(seg) THEN LineLines(seg, nd)
    ELSE IF IsCircular(seg) THEN ArcLines(seg, nd)
    ELSE PointLines(NPoints(seg, SubdivPoints(SubdivOf(seg.len, spu))), nd)

\* The whole of path2gcode, as a function of the path.
RECURSIVE AllLines(_, _, _)
AllLines(segs, spu, nd) ==
    IF segs = <<>> THEN <<>>
    ELSE Extend(AllLines(SubSeq(segs, 1, Len(segs) - 1), spu, nd),
                SegLines(segs[Len(segs)], spu, nd))

Path2gcode(segs, spu, nd) == Join(AllLines(segs, spu, nd))

\* The end of the last segment taken, where the next one starts.
Here == IF path = <<>> THEN Origin ELSE path[Len(path)].end

docVars == <<scale, elements, doc_gcode>>

rvVars == <<v, text>>

\* One turn of the loop, for a Move.
TranslateMove ==
    /\ pc = "loop"
    /\ Len(path) < MaxSegs
    /\ \E seg \in Segments(Here) :
        /\ IsMove(seg)
        /\ path' = Append(path, seg)
        /\ subdiv' = SubdivOf(seg.len, samples_per_unit)
        /\ gcode' = Extend(gcode, MoveLines(seg, d))
    /\ UNCHANGED <<pc, samples_per_unit, d, subdiv_points, points, result, docVars, rvVars>>

\* One turn of the loop, for a Line or a Close.
TranslateLine ==
    /\ pc = "loop"
    /\ Len(path) < MaxSegs
    /\ \E seg \in Segments(Here) :
        /\ IsLine(seg)
        /\ path' = Append(path, seg)
        /\ subdiv' = SubdivOf(seg.len, samples_per_unit)
        /\ gcode' = Extend(gcode, LineLines(seg, d))
    /\ UNCHANGED <<pc, samples_per_unit, d, subdiv_points, points, result, docVars, rvVars>>

\* One turn of the loop, for an Arc of equal radii.
TranslateArc ==
    /\ pc = "loop"
    /\ Len(path) < MaxSegs
    /\ \E seg \in Segments(Here) :
        /\ IsCircular(seg)
        /\ path' = Append(path, seg)
        /\ subdiv' = SubdivOf(seg.len, samples_per_unit)
        /\ gcode' = Extend(gcode, ArcLines(seg, d))
    /\ UNCHANGED <<pc, samples_per_unit, d, subdiv_points, points, result, docVars, rvVars>>

\* One turn of the loop, for any other segment: the else branch.
TranslateSample ==
    /\ pc = "loop"
    /\ Len(path) < MaxSegs
    /\ \E seg \in Segments(Here) :
        /\ IsSampled(seg)
        /\ path' = Append(path, seg)
        /\ subdiv' = SubdivOf(seg.len, samples_per_unit)
        /\ subdiv_points' = SubdivPoints(subdiv')
        /\ points' = NPoints(seg, subdiv_points')
        /\ gcode' = Extend(gcode, PointLines(points', d))
    /\ UNCHANGED <<pc, samples_per_unit, d, result, docVars, rvVars>>

\* The path is exhausted: return "\n".join(gcode).
Return ==
    /\ pc = "loop"
    /\ pc' = "done"
    /\ result' = Join(gcode)
    /\ UNCHANGED <<path, samples_per_unit, d, gcode, subdiv, subdiv_points, points,
                   docVars, rvVars>>

\* A call of path2gcode: gcode = [], and the locals not yet bound.
Init ==
    /\ pc = "loop"
    /\ path = <<>>
    /\ samples_per_unit \in SamplesPerUnit
    /\ d \in Digits
    /\ gcode = <<>>
    /\ subdiv = 0
    /\ subdiv_points = <<>>
    /\ points = <<>>
    /\ result = <<>>
    /\ scale = 1
    /\ elements = <<>>
    /\ doc_gcode = <<>>
    /\ v = Len0
    /\ text = <<>>

Next == TranslateMove \/ TranslateLine \/ TranslateArc \/ TranslateSample \/ Return

Spec == Init /\ [][Next]_vars

----------------------------------------------------------------------------
(* get_gcode.  An element of the parsed document is a record               *)
(*   kind : "Group" (no Shape), "Path", or "Rect" (a Shape that is no      *)
(*          Path),                                                         *)
(*   id   : its id, "None" when the element has none,                      *)
(*   segs : the segments of its path form, before its transform is baked.  *)

Ids == {"None", "a", "b"}

\* M0,0 L10,0
PathLine ==
    <<Seg("Move", Origin, Origin, Len0, Len0, 0, 0),
      Seg("Line", Origin, P10, Dec(10, 0, 0), Len0, 0, 0)>>

PathArc ==
    <<Seg("Move", Origin, Origin, Len0, Len0, 0, 0),
      Seg("Arc", Origin, P10, Len2, Dec(5, 0, 0), 0, 1)>>

PathCurve ==
    <<Seg("Move", Origin, P10, Len0, Len0, 0, 0),
      Seg("CubicBezier", P10, PFrac, Len3Eighths, Len0, 0, 0)>>

RectPath ==
    <<Seg("Move", Origin, Origin, Len0, Len0, 0, 0),
      Seg("Line", Origin, P10, Dec(10, 0, 0), Len0, 0, 0),
      Seg("Line", P10, PFrac, Len2, Len0, 0, 0),
      Seg("Close", PFrac, Origin, Len2, Len0, 0, 0)>>

\* What svg.elements() may deliver.
Elements ==
    {[kind |-> "Group", id |-> i, segs |-> <<>>] : i \in Ids}
    \cup {[kind |-> "Path", id |-> i, segs |-> p] :
            i \in Ids, p \in {PathLine, PathArc, PathCurve}}
    \cup {[kind |-> "Rect", id |-> i, segs |-> RectPath] : i \in Ids}

Scales == {1, 2}

\* isinstance(element, Shape)
IsShape_PathOnly(el) == el.kind = "Path"

IsShape(el) == el.kind \in {"Path", "Rect"}

\* Path(element) of a Shape that is no Path: its path form, its id kept.
ToPath(el) == [kind |-> "Path", id |-> el.id, segs |-> el.segs]

\* element.reify(): the pending transform, scale(k), baked into the numbers.
Scaled(x, k) == [neg |-> x.neg, mag |-> x.mag * k]

ScaledPt(p, k) == Pt(Scaled(p.x, k), Scaled(p.y, k))

Reify(segs, k) ==
    [n \in 1..Len(segs) |->
        Seg(segs[n].kind, ScaledPt(segs[n].start, k), ScaledPt(segs[n].end, k),
            Scaled(segs[n].len, k), Scaled(segs[n].rx, k), segs[n].dr * k,
            segs[n].sweep)]

\* The entry appended for a Shape.
Entry(el, k, spu, nd) ==
    LET p == IF el.kind = "Path" THEN el ELSE ToPath(el)
    IN  [id |-> p.id, path |-> Path2gcode(Reify(p.segs, k), spu, nd)]

pathVars == <<path, gcode, subdiv, subdiv_points, points, result>>

\* One turn of the loop, for a Shape.
ElementShape ==
    /\ pc = "elements"
    /\ Len(elements) < MaxElems
    /\ \E el \in Elements :
        /\ IsShape(el)
        /\ elements' = Append(elements, el)
        /\ doc_gcode' = Append(doc_gcode, Entry(el, scale, samples_per_unit, d))
    /\ UNCHANGED <<pc, samples_per_unit, d, scale, pathVars, rvVars>>

\* One turn of the loop, for any other element.
ElementSkip ==
    /\ pc = "elements"
    /\ Len(elements) < MaxElems
    /\ \E el \in Elements :
        /\ ~IsShape(el)
        /\ elements' = Append(elements, el)
    /\ UNCHANGED <<pc, samples_per_unit, d, scale, doc_gcode, pathVars, rvVars>>

\* The elements are exhausted: return gcode.
ReturnDoc ==
    /\ pc = "elements"
    /\ pc' = "returned"
    /\ UNCHANGED <<samples_per_unit, d, scale, elements, doc_gcode, pathVars, rvVars>>

\* A call of get_gcode, after the document is parsed.
InitDoc ==
    /\ pc = "elements"
    /\ path = <<>>
    /\ samples_per_unit \in SamplesPerUnit
    /\ d \in Digits
    /\ gcode = <<>>
    /\ subdiv = 0
    /\ subdiv_points = <<>>
    /\ points = <<>>
    /\ result = <<>>
    /\ scale \in Scales
    /\ elements = <<>>
    /\ doc_gcode = <<>>
    /\ v = Len0
    /\ text = <<>>

NextDoc == ElementShape \/ ElementSkip \/ ReturnDoc

SpecDoc == InitDoc /\ [][NextDoc]_vars

----------------------------------------------------------------------------
(* rv on its own: a call of the helper with one number.                    *)

RvValues ==
    LET pos == {Dec(0, 0, 0), Dec(5, 0, 0), Dec(10, 0, 0), Dec(100, 0, 0),
                Dec(12, 34, 2), Dec(3, 14159, 5), Dec(0, 125, 3), Dec(0, 375, 3),
                Dec(2, 5, 1), Dec(0, 5, 1), Dec(1, 5, 1), Dec(7, 25, 2)}
    IN  pos \cup {Neg(x) : x \in pos}

RvDigits == {0, 1, 2, 3, 4}

Render ==
    /\ pc = "rv"
    /\ pc' = "rendered"
    /\ text' = rv(v, d)
    /\ UNCHANGED <<samples_per_unit, d, v, pathVars, docVars>>

InitRv ==
    /\ pc = "rv"
    /\ path = <<>>
    /\ samples_per_unit = 1
    /\ d \in RvDigits
    /\ gcode = <<>>
    /\ subdiv = 0
    /\ subdiv_points = <<>>
    /\ points = <<>>
    /\ result = <<>>
    /\ scale = 1
    /\ elements = <<>>
    /\ doc_gcode = <<>>
    /\ v \in RvValues
    /\ text = <<>>

NextRv == Render

SpecRv == InitRv /\ [][NextRv]_vars

----------------------------------------------------------------------------
(* Reading a line back, for the statements below.                          *)

\* The place of the first c in s, 0 when there is none.
RECURSIVE Find(_, _, _)
Find(s, c, from) ==
    IF from > Len(s) THEN 0 ELSE IF s[from] = c THEN from ELSE Find(s, c, from + 1)

\* The command word of a line, and the texts of its X, Y and R numbers.
LineCode(line) == SubSeq(line, 1, Find(line, " ", 1) - 1)

XText(line) == SubSeq(line, Find(line, "X", 1) + 1, Find(line, "Y", 1) - 2)

YText(line) ==
    SubSeq(line, Find(line, "Y", 1) + 1,
           IF Find(line, "R", 1) = 0 THEN Len(line) ELSE Find(line, "R", 1) - 2)

DigitVal(c) == CHOOSE k \in 0..9 : Digit(k) = c

RECURSIVE DigitsVal(_)
DigitsVal(s) ==
    IF s = <<>> THEN 0 ELSE 10 * DigitsVal(SubSeq(s, 1, Len(s) - 1)) + DigitVal(s[Len(s)])

RECURSIVE LStrip(_)
LStrip(s) == IF s # <<>> /\ s[1] = " " THEN LStrip(Tail(s)) ELSE s

\* The number a text denotes, in units of 10^-Prec: blanks before it are
\* skipped, as a G-code reader skips them.
ParseNum(s) ==
    LET t     == LStrip(s)
        neg   == t # <<>> /\ t[1] = "-"
        u     == IF neg THEN Tail(t) ELSE t
        dot   == Find(u, ".", 1)
        whole == IF dot = 0 THEN u ELSE SubSeq(u, 1, dot - 1)
        frac  == IF dot = 0 THEN <<>> ELSE SubSeq(u, dot + 1, Len(u))
        mag   == DigitsVal(whole) * Unit + DigitsVal(frac) * Pow10(Prec - Len(frac))
    IN  IF neg THEN 0 - mag ELSE mag

\* The decimal numeral of x rounded to nd places, with the zeros that end
\* its fraction dropped and then a point that ends it.
Numeral(x, nd) ==
    LET r    == Round(x, nd)
        frac == RStrip(FixedStr(r.mag % Unit, Prec), "0")
    IN  (IF r.neg /\ r.mag # 0 THEN <<"-">> ELSE <<>>)
        \o NatStr(r.mag \div Unit)
        \o (IF frac = <<>> THEN <<>> ELSE <<".">> \o frac)

\* A text cut at its line breaks.
RECURSIVE SplitLines(_)
SplitLines(s) ==
    IF s = <<>> THEN <<>>
    ELSE LET nl == Find(s, "\n", 1)
         IN  IF nl = 0 THEN <<s>>
             ELSE <<SubSeq(s, 1, nl - 1)>> \o SplitLines(SubSeq(s, nl + 1, Len(s)))

\* A turn of the loop has taken a segment; the segment; the lines it added.
Took == Len(path') = Len(path) + 1

Taken == path'[Len(path')]

Added == Len(gcode') - Len(gcode)

\* The segment falls to the else branch, by the claim's own wording: not a
\* Move, not a Line or Close, not an Arc whose radii differ by less than 1e-9.
ToSample(seg) ==
    /\ seg.kind \notin {"Move", "Line", "Close"}
    /\ ~(seg.kind = "Arc" /\ seg.dr < Tol)

----------------------------------------------------------------------------
(* The claims.                                                             *)

\* C1: every segment, whatever its kind and its length, adds at least one
\* line to gcode.
C1_EverySegmentEmits == [][Took => Added >= 1]_vars

\* C2: a segment of the sampling branch adds exactly N lines, with
\* N = max(1, round(length * samples_per_unit)), the value of subdiv.
C2_SampledCountIsSubdiv == [][Took /\ ToSample(Taken) => Added = subdiv']_vars

\* C3: the positions a segment of the sampling branch is sampled at are not
\* empty, lie in (0, 1], increase strictly, are evenly spaced, and end at 1.
C3_PositionsCoverToOne ==
    (path # <<>> /\ ToSample(path[Len(path)])) =>
        /\ subdiv_points # <<>>
        /\ subdiv_points[Len(subdiv_points)].num = subdiv_points[Len(subdiv_points)].den
        /\ \A k \in 1..Len(subdiv_points) :
            /\ 0 < subdiv_points[k].num
            /\ subdiv_points[k].num <= subdiv_points[k].den
            /\ subdiv_points[k].den = subdiv_points[1].den
            /\ subdiv_points[k].num = k * subdiv_points[1].num

\* The lines of the first n segments taken, segment after segment.
RECURSIVE LinesInOrder(_)
LinesInOrder(n) ==
    IF n = 0 THEN <<>>
    ELSE LinesInOrder(n - 1) \o SegLines(path[n], samples_per_unit, d)

\* C4: gcode holds the lines of the segments taken so far, segment after
\* segment in the order of the path, and the returned text, cut at its line
\* breaks, is that list: nothing reordered, dropped or repeated.
C4_OutputInSegmentOrder ==
    /\ gcode = LinesInOrder(Len(path))
    /\ pc = "done" => SplitLines(result) = gcode

C4_Witness ==
    /\ pc = "done"
    /\ Len(path) = 2
    /\ path[1].kind = "Move"
    /\ path[2].kind = "Other"
    /\ Len(gcode) = 4
    /\ gcode[1] # gcode[2]
    /\ LineCode(gcode[1]) = G0

\* C5: an Arc whose radii differ by less than 1e-9 adds exactly one line,
\* '<code> X<end.x> Y<-end.y> R<rx>' with each number as its numeral, the
\* code G02 when sweep > 0 and G03 otherwise; so the arc to (10, 0) with
\* rx = ry = 5 and sweep = 1 adds 'G02 X10 Y0 R5'.
C5_CircularArcLine ==
    [][Took /\ Taken.kind = "Arc" /\ Taken.dr < Tol =>
        /\ Added = 1
        /\ gcode'[Len(gcode')] =
              (IF Taken.sweep > 0 THEN G02 ELSE G03)
              \o <<" ", "X">> \o Numeral(Taken.end.x, d)
              \o <<" ", "Y">> \o Numeral(Neg(Taken.end.y), d)
              \o <<" ", "R">> \o Numeral(Taken.rx, d)]_vars

\* C6: a Move adds exactly one line, a G0, and a Line or Close exactly one
\* line, a G1; the line's X is the end's x and its Y the negation of the
\* end's y (at the d places the numbers are written with), whatever the
\* segment's length and samples_per_unit.
C6_MoveAndLineEmitOne ==
    [][Took /\ Taken.kind \in {"Move", "Line", "Close"} =>
        /\ Added = 1
        /\ SubSeq(gcode', 1, Len(gcode)) = gcode
        /\ LET line == gcode'[Len(gcode')]
           IN  /\ LineCode(line) = (IF Taken.kind = "Move" THEN G0 ELSE G1)
               /\ ParseNum(XText(line)) = ToInt(Round(Taken.end.x, d))
               /\ ParseNum(YText(line)) = 0 - ToInt(Round(Taken.end.y, d))
               /\ Find(line, "R", 1) = 0]_vars

C6_Witness ==
    /\ Len(path) = 2
    /\ path[1].kind = "Move" /\ path[1].end = PFrac
    /\ path[2].kind = "Line" /\ path[2].len = Len2
    /\ samples_per_unit = 10
    /\ subdiv = 20
    /\ d = 4
    /\ Len(gcode) = 2
    /\ LineCode(gcode[1]) = G0
    /\ ParseNum(YText(gcode[1])) = Grid
    /\ LineCode(gcode[2]) = G1

\* C7: the text written for a number is the decimal numeral of the number
\* rounded to d places, trailing zeros of the fraction and then a trailing
\* point dropped: 5.0 at d = 4 is written "5".
C7_TextIsNumeral == pc = "rendered" => text = Numeral(v, d)

\* The elements that are drawable shapes, in their order.
RECURSIVE ShapesOf(_)
ShapesOf(els) ==
    IF els = <<>> THEN <<>>
    ELSE ShapesOf(SubSeq(els, 1, Len(els) - 1))
         \o (IF els[Len(els)].kind = "Group" THEN <<>> ELSE <<els[Len(els)]>>)

\* C8: the returned list holds one entry for each element that is a Shape and
\* none for any other, in the order of the elements, each with its shape's id.
C8_OneEntryPerShape ==
    /\ Len(doc_gcode) = Len(ShapesOf(elements))
    /\ \A k \in 1..Len(doc_gcode) : doc_gcode[k].id = ShapesOf(elements)[k].id

C8_Witness ==
    /\ pc = "returned"
    /\ Len(elements) = 2
    /\ elements[1].kind = "Group" /\ elements[1].id = "b"
    /\ elements[2].kind = "Rect" /\ elements[2].id = "a"
    /\ Len(doc_gcode) = 1
    /\ doc_gcode[1].id = "a"
    /\ Len(SplitLines(doc_gcode[1].path)) = 4

\* C9: every segment that is no Move, no Line or Close and no Arc of equal
\* radii is taken by the sampling branch, which adds G1 lines only, and the
\* loop goes on: there is no failing state.
C9_OthersAreSampled ==
    [][Took /\ ToSample(Taken) =>
        /\ pc' = "loop"
        /\ points' = NPoints(Taken, subdiv_points')
        /\ Added = Len(points')
        /\ \A k \in (Len(gcode) + 1)..Len(gcode') :
            /\ LineCode(gcode'[k]) = G1
            /\ Find(gcode'[k], "R", 1) = 0]_vars

C9_Witness ==
    /\ Len(path) = 2
    /\ path[1].kind = "Other" /\ Len(points) = 3
    /\ path[2].kind = "Arc" /\ path[2].dr = Tol
    /\ Len(gcode) = 6
    /\ \A k \in 1..6 : LineCode(gcode[k]) = G1

\* C10: after any prefix of the path, the last line of gcode targets the end
\* of the last segment taken, y negated (at the d places the numbers are
\* written with).
C10_LastLineReachesEnd ==
    path # <<>> =>
        /\ gcode # <<>>
        /\ ParseNum(XText(gcode[Len(gcode)])) = ToInt(Round(path[Len(path)].end.x, d))
        /\ ParseNum(YText(gcode[Len(gcode)])) = 0 - ToInt(Round(path[Len(path)].end.y, d))

====
